---- MODULE Spec2Model ----
(***************************************************************************)
(* Model of the calendar-archive pipeline of bya_fr_site:                  *)
(*   make_verified_manifests.py  (Manifest Partitioner)                    *)
(*   rebuild_events_safe.py      (grid parser + Event Reconciler)          *)
(*   fundraiser_analytics.py     (analytics: event keys, venue bookings,   *)
(*                                yearly summary)                          *)
(*   audit_html_types.py         (audit of the archived files)             *)
(*   extract_all_events.py       (grid parser + popup enrichment)          *)
(* Text values are TLA+ strings; the text functions of the scripts         *)
(* (clean, lower, regex substitutions, formatting) are computed character  *)
(* by character.                                                           *)
(***************************************************************************)
EXTENDS Integers, Sequences, FiniteSets, TLC

\* ------------------------------------------------------------------ bounds
\* Largest number of manifest entries (month_block plus day_block) parsed
\* in one run of the Reconciler.
MaxRecs == 3

\* Largest number of entries of the snapshot manifest given to the Partitioner.
MaxManifest == 2

\* Largest number of pages per grid sub-manifest, and of popup pages, given
\* to extract_all_events.py.
MaxExtractPages == 1

MaxPopups == 2
MaxGridPages == 2
MaxCaps == 2

\* ------------------------------------------------------------- text basics
\* Python None / pandas NaN: an absent value.
None == "<absent>"

\* The characters of the model in code-point order (tab, space, ... , '|').
CharOrder == "\t !\"'-./0123456789:<=>?ABCDEFGHIJKLMNOPQRSTUVWXYZ_abcdefghijklmnopqrstuvwxyz|"

CharSet == {SubSeq(CharOrder, i, i) : i \in 1..Len(CharOrder)}

UpperChars == "ABCDEFGHIJKLMNOPQRSTUVWXYZ"

LowerChars == "abcdefghijklmnopqrstuvwxyz"

DigitChars == "0123456789"

Ch(s, i) == SubSeq(s, i, i)

Rest(s) == SubSeq(s, 2, Len(s))

InStr(c, s) == \E i \in 1..Len(s) : Ch(s, i) = c

IndexIn(c, s) == CHOOSE i \in 1..Len(s) : Ch(s, i) = c

\* ord(c): position in code-point order.
OrdOf == [c \in CharSet |-> IndexIn(c, CharOrder)]

\* str.lower() of one character.
LowerOf == [c \in CharSet |-> IF InStr(c, UpperChars) THEN Ch(LowerChars, IndexIn(c, UpperChars)) ELSE c]

\* regex \s
IsSpace(c) == c \in {" ", "\t"}

\* regex \w
IsWord(c) == InStr(c, UpperChars) \/ InStr(c, LowerChars) \/ InStr(c, DigitChars) \/ c = "_"

RECURSIVE Lower(_)
Lower(s) == IF s = "" THEN "" ELSE LowerOf[Ch(s, 1)] \o Lower(Rest(s))

\* Python's str comparison a < b (lexicographic by code point).
RECURSIVE StrLess(_, _)
StrLess(a, b) ==
    IF b = "" THEN FALSE
    ELSE IF a = "" THEN TRUE
    ELSE IF Ch(a, 1) = Ch(b, 1) THEN StrLess(Rest(a), Rest(b))
    ELSE OrdOf[Ch(a, 1)] < OrdOf[Ch(b, 1)]

StartsWith(s, p) == Len(s) >= Len(p) /\ SubSeq(s, 1, Len(p)) = p

\* s[:n]
Prefix(s, n) == SubSeq(s, 1, IF Len(s) < n THEN Len(s) ELSE n)

\* s[n:]  (0-based n)
DropFirst(s, n) == SubSeq(s, n + 1, Len(s))

\* str.strip() on whitespace
RECURSIVE LStrip(_)
LStrip(s) == IF s # "" /\ IsSpace(Ch(s, 1)) THEN LStrip(Rest(s)) ELSE s

RECURSIVE RStrip(_)
RStrip(s) == IF s # "" /\ IsSpace(Ch(s, Len(s))) THEN RStrip(SubSeq(s, 1, Len(s) - 1)) ELSE s

Strip(s) == RStrip(LStrip(s))

\* re.sub(r"\s+", " ", s)
RECURSIVE CollapseSpace(_)
CollapseSpace(s) ==
    IF s = "" THEN ""
    ELSE IF IsSpace(Ch(s, 1))
         THEN " " \o CollapseSpace(LStrip(s))
         ELSE Ch(s, 1) \o CollapseSpace(Rest(s))

\* The "falsy" test of Python's `not x` on an optional string.
Falsy(x) == x = None \/ x = ""

\* ------------------------------------------------------------ event blocks
\* An event block (a div of class CalEvent) as the grid parser reads it:
\*   classes    the class lists of its nested divs, in document order
\*   time       text of the TimeLabel span, None when there is no span
\*   a          text of the first anchor, None when there is no anchor
\*   text       text of the whole block
\*   has_ns     a noscript link with an href is present
\*   ns_ID, ns_Date   the link's ID and Date query parameters (None: absent)
\*   has_popup  the inline PopupWindow(...) pattern matches
\*   popup_date, popup_id   its two captured groups
Block0 ==
    [classes |-> <<<<"EventLink">>, <<"c_Masjid">>>>,
     time |-> "1:00 PM", a |-> "Friday Prayer", text |-> "1:00 PM Friday Prayer",
     has_ns |-> TRUE, ns_ID |-> "899", ns_Date |-> "2021/5/21",
     has_popup |-> FALSE, popup_date |-> None, popup_id |-> None]

\* The event blocks pages are made of.
Blocks ==
    { Block0,
      \* same day, title and time under another id, read from the popup call
      [Block0 EXCEPT !.classes = <<<<"EventLink", "Gym">>>>, !.has_ns = FALSE,
                     !.ns_ID = None, !.ns_Date = None,
                     !.has_popup = TRUE, !.popup_date = "2021/5/21", !.popup_id = "900"],
      \* the same event without an id
      [Block0 EXCEPT !.ns_ID = None],
      \* without an id, other spelling of title and time, other venue
      [Block0 EXCEPT !.ns_ID = None, !.classes = <<<<"Gym">>>>,
                     !.a = "friday  prayer!", !.time = "1:00 pm",
                     !.text = "1:00 pm friday  prayer!"],
      \* id 899 under another title, no time span, no venue div
      [Block0 EXCEPT !.classes = <<<<"EventLink">>>>, !.a = "Jumuah", !.time = None,
                     !.text = "Jumuah"],
      \* another month, no id, a venue class that is only prefixes
      [Block0 EXCEPT !.ns_ID = None, !.ns_Date = "2021/6/1", !.classes = <<<<"c_c_">>>>],
      \* a Date parameter that does not parse and no popup call
      [Block0 EXCEPT !.ns_Date = "2021/5"],
      \* two years earlier: a misspelt title with a host suffix
      [Block0 EXCEPT !.ns_ID = "77", !.ns_Date = "2019/3/9", !.time = "10:00 AM",
                     !.a = "Arabic Scool at Bilal Host John Doe",
                     !.text = "10:00 AM Arabic Scool at Bilal Host John Doe"],
      \* id 899 again, no venue div, a title that sorts before "Friday Prayer"
      [Block0 EXCEPT !.classes = <<<<"EventLink">>>>, !.a = "Arabic School at Bilal",
                     !.text = "1:00 PM Arabic School at Bilal"],
      \* a title that begins with the word host
      [Block0 EXCEPT !.ns_ID = "78", !.a = "Host Family Dinner",
                     !.text = "1:00 PM Host Family Dinner"] }

\* A block with both a noscript link and a popup call.
BlockBoth ==
    [Block0 EXCEPT !.has_popup = TRUE, !.popup_date = "2020/1/2", !.popup_id = "900"]

\* Blocks whose Date parameter is out of the ordinary, and blocks that carry
\* both sources of date and id (only the grid parser is run on them).
DateBlocks ==
    { \* a year above 9999
      [Block0 EXCEPT !.ns_Date = "12345/6/7"],
      \* a month of three digits
      [Block0 EXCEPT !.ns_Date = "2021/123/5"],
      \* a negative year
      [Block0 EXCEPT !.ns_Date = "-5/6/7"],
      \* four parts
      [Block0 EXCEPT !.ns_Date = "2021/5/21/9"],
      \* a link with a good Date and a popup call naming another day and id
      BlockBoth,
      \* a link whose Date does not parse, and a popup call
      [BlockBoth EXCEPT !.ns_Date = "2021/5"],
      \* a link without Date parameter, and a popup call
      [BlockBoth EXCEPT !.ns_Date = None],
      \* a link with a good Date and no ID, and a popup call
      [BlockBoth EXCEPT !.ns_ID = None],
      \* a link whose Date does not parse and a popup call whose date does not either
      [BlockBoth EXCEPT !.ns_Date = "2021/5", !.popup_date = "soon"],
      \* neither a link nor a popup call
      [Block0 EXCEPT !.has_ns = FALSE, !.ns_ID = None, !.ns_Date = None] }

GridBlocks == Blocks \cup DateBlocks

\* ------------------------------------------- rebuild_events_safe.py: text
\* clean(s): None -> "", whitespace runs -> one space, stripped.
clean(s) == IF s = None THEN "" ELSE Strip(CollapseSpace(s))

\* re.sub(r"[^\w\s]", "", t)
RECURSIVE DropPunct(_)
DropPunct(t) ==
    IF t = "" THEN ""
    ELSE IF IsWord(Ch(t, 1)) \/ IsSpace(Ch(t, 1))
         THEN Ch(t, 1) \o DropPunct(Rest(t))
         ELSE DropPunct(Rest(t))

normalize_title(t) == Strip(CollapseSpace(DropPunct(Lower(clean(t)))))

normalize_loc(loc) ==
    IF Falsy(loc) THEN None
    ELSE LET l == clean(loc)
         IN  IF StartsWith(Lower(l), "c_") THEN DropFirst(l, 2) ELSE l

\* d.split(sep) for a one-character separator.
RECURSIVE Split(_, _)
Split(d, sep) ==
    IF ~InStr(sep, d) THEN <<d>>
    ELSE LET i == CHOOSE k \in 1..Len(d) :
                     Ch(d, k) = sep /\ \A j \in 1..(k - 1) : Ch(d, j) # sep
         IN  <<SubSeq(d, 1, i - 1)>> \o Split(DropFirst(d, i), sep)

AllDigits(s) == s # "" /\ \A i \in 1..Len(s) : InStr(Ch(s, i), DigitChars)

RECURSIVE DigitsValue(_)
DigitsValue(s) ==
    IF s = "" THEN 0
    ELSE 10 * DigitsValue(SubSeq(s, 1, Len(s) - 1)) + (IndexIn(Ch(s, Len(s)), DigitChars) - 1)

\* int(s): surrounding whitespace and one sign are accepted; anything else
\* raises ValueError (ok = FALSE).
PyInt(s) ==
    LET t == Strip(s)
        signed == t # "" /\ Ch(t, 1) \in {"-", "+"}
        body == IF signed THEN Rest(t) ELSE t
    IN  IF AllDigits(body)
        THEN [ok |-> TRUE,
              val |-> IF signed /\ Ch(t, 1) = "-" THEN 0 - DigitsValue(body) ELSE DigitsValue(body)]
        ELSE [ok |-> FALSE, val |-> 0]

RECURSIVE NatStr(_)
NatStr(n) == IF n < 10 THEN Ch(DigitChars, n + 1) ELSE NatStr(n \div 10) \o Ch(DigitChars, (n % 10) + 1)

RECURSIVE ZeroPad(_, _)
ZeroPad(s, w) == IF Len(s) >= w THEN s ELSE ZeroPad("0" \o s, w)

\* f"{n:0wd}": zero padded to width w, the sign counted in the width.
Fmt(n, w) == IF n < 0 THEN "-" \o ZeroPad(NatStr(0 - n), w - 1) ELSE ZeroPad(NatStr(n), w)

parse_date_str(d) ==
    LET parts == Split(d, "/")
    IN  IF Len(parts) < 3 THEN None
        ELSE LET y == PyInt(parts[1])
                 m == PyInt(parts[2])
                 dd == PyInt(parts[3])
             IN  IF y.ok /\ m.ok /\ dd.ok
                 THEN Fmt(y.val, 4) \o "-" \o Fmt(m.val, 2) \o "-" \o Fmt(dd.val, 2)
                 ELSE None

\* ----------------------------------- rebuild_events_safe.py: grid parser
StructuralClasses == {"CalEvent", "EventLink", "DayWithEvents"}

RECURSIVE FirstClass(_)
FirstClass(cs) ==
    IF cs = <<>> THEN None
    ELSE IF Head(cs) \notin StructuralClasses THEN Head(cs) ELSE FirstClass(Tail(cs))

\* The first class, over the nested divs in document order, that is not a
\* structural marker class.
RECURSIVE FirstLocation(_)
FirstLocation(divs) ==
    IF divs = <<>> THEN None
    ELSE IF FirstClass(Head(divs)) # None THEN FirstClass(Head(divs))
         ELSE FirstLocation(Tail(divs))

BlockTitle(ev) ==
    LET t == IF ev.a # None THEN clean(ev.a) ELSE None
    IN  IF Falsy(t) THEN clean(ev.text) ELSE t

\* The popup call supplies the date only: an id read from the link stays.
BlockDateIdKeepLinkId(ev) ==
    LET id0 == IF ev.has_ns THEN ev.ns_ID ELSE None
        d0 == IF ev.has_ns
              THEN parse_date_str(IF ev.ns_Date = None THEN "" ELSE ev.ns_Date)
              ELSE None
    IN  IF Falsy(d0) /\ ev.has_popup
        THEN [date |-> parse_date_str(ev.popup_date),
              event_id |-> IF id0 # None THEN id0 ELSE ev.popup_id]
        ELSE [date |-> d0, event_id |-> id0]

\* date and event_id of a block: the noscript link first, the popup call
\* when the link gave no date.
BlockDateId(ev) ==
    LET id0 == IF ev.has_ns THEN ev.ns_ID ELSE None
        d0 == IF ev.has_ns
              THEN parse_date_str(IF ev.ns_Date = None THEN "" ELSE ev.ns_Date)
              ELSE None
    IN  IF Falsy(d0) /\ ev.has_popup
        THEN [date |-> parse_date_str(ev.popup_date), event_id |-> ev.popup_id]
        ELSE [date |-> d0, event_id |-> id0]

\* The row extract_events appends for one block (when it appends one).
BlockRow(ev, calendar_name, source_type) ==
    LET di == BlockDateId(ev)
    IN  [date |-> di.date,
         year_month |-> Prefix(di.date, 7),
         year |-> Prefix(di.date, 4),
         calendar_name |-> calendar_name,
         title |-> BlockTitle(ev),
         title_norm |-> normalize_title(BlockTitle(ev)),
         time_label |-> IF ev.time # None THEN clean(ev.time) ELSE None,
         location_code |-> normalize_loc(FirstLocation(ev.classes)),
         event_id |-> di.event_id,
         source_type |-> source_type]

\* The test of extract_all_events.py, which keeps undated rows.
BlockKeptTitleOnly(ev) == ~Falsy(BlockTitle(ev))

\* `if not (title and date): continue`
BlockKept(ev) == ~Falsy(BlockTitle(ev)) /\ ~Falsy(BlockDateId(ev).date)

\* What the parser makes of each block of the model (a table, evaluated
\* once): whether it appends a row, and the row before calendar_name and
\* source_type are filled in.
ParsedBlocks == [ev \in GridBlocks |-> [kept |-> BlockKept(ev), row |-> BlockRow(ev, None, None)]]

\* rows.append({...}) for a block that passed the title-and-date test (lines 88-102).
RowIfKept(parsed, calendar_name, source_type) ==
    IF parsed.kept
    THEN <<[parsed.row EXCEPT !.calendar_name = calendar_name, !.source_type = source_type]>>
    ELSE <<>>

RECURSIVE extract_events(_, _, _)
extract_events(blocks, calendar_name, source_type) ==
    IF blocks = <<>> THEN <<>>
    ELSE RowIfKept(ParsedBlocks[Head(blocks)], calendar_name, source_type)
         \o extract_events(Tail(blocks), calendar_name, source_type)

\* parse_manifest: the rows of every listed page, in manifest order.
RECURSIVE parse_manifest(_, _)
parse_manifest(items, source_type) ==
    IF items = <<>> THEN <<>>
    ELSE extract_events(Head(items).blocks, Head(items).CalendarName, source_type)
         \o parse_manifest(Tail(items), source_type)

\* ------------------------------------- rebuild_events_safe.py: reconciler
PrimaryCalendar == "BilalEvents"

\* The frame left unfiltered.
CalendarFilterOff(df) == df

\* df[df["calendar_name"] == "BilalEvents"]
CalendarFilter(df) == SelectSeq(df, LAMBDA r : r.calendar_name = PrimaryCalendar)

\* set(df_month["year_month"].dropna().unique())
MonthsOf(df) == {df[i].year_month : i \in 1..Len(df)}

\* The gate with the negation lost: the day rows of covered months are kept.
DayMissingInverted(df_day, month_months) == SelectSeq(df_day, LAMBDA r : r.year_month \in month_months)

\* No gate: every day row is combined with the month rows.
DayMissingUngated(df_day, month_months) == df_day

\* df_day[~df_day["year_month"].isin(month_months)]
DayMissing(df_day, month_months) == SelectSeq(df_day, LAMBDA r : r.year_month \notin month_months)

has_event_id(r) == IF r.event_id # None THEN 1 ELSE 0

has_location(r) == IF r.location_code # None THEN 1 ELSE 0

source_rank(r) ==
    IF r.source_type = "month_block" THEN 0
    ELSE IF r.source_type = "day_block" THEN 1 ELSE 9

\* Order of sort_values(by=[date, title_norm, source_rank, has_event_id,
\* has_location], ascending=[True, True, True, False, False]).
RowLess(a, b) ==
    IF a.date # b.date THEN StrLess(a.date, b.date)
    ELSE IF a.title_norm # b.title_norm THEN StrLess(a.title_norm, b.title_norm)
    ELSE IF source_rank(a) # source_rank(b) THEN source_rank(a) < source_rank(b)
    ELSE IF has_event_id(a) # has_event_id(b) THEN has_event_id(a) > has_event_id(b)
    ELSE has_location(a) > has_location(b)

\* Sort that keeps rows of equal rank in the order reversed from the input.
SortReversingTies(df) ==
    LET n == Len(df)
        pos(i) == 1 + Cardinality({j \in 1..n :
                        RowLess(df[j], df[i]) \/ (~RowLess(df[i], df[j]) /\ j > i)})
    IN  [k \in 1..n |-> df[CHOOSE i \in 1..n : pos(i) = k]]

\* The multi-column sort of pandas is a stable lexicographic sort: rows of
\* equal rank keep their input order.
sort_values(df) ==
    LET n == Len(df)
        pos(i) == 1 + Cardinality({j \in 1..n :
                        RowLess(df[j], df[i]) \/ (~RowLess(df[i], df[j]) /\ j < i)})
    IN  [k \in 1..n |-> df[CHOOSE i \in 1..n : pos(i) = k]]

\* The rows of df at the positions idx, in order.
RECURSIVE RowsAt(_, _, _)
RowsAt(df, idx, i) ==
    IF i > Len(df) THEN <<>>
    ELSE (IF i \in idx THEN <<df[i]>> ELSE <<>>) \o RowsAt(df, idx, i + 1)

\* The values of the columns `subset` of a row.
KeyOf(r, subset) == [i \in 1..Len(subset) |-> r[subset[i]]]

\* drop_duplicates(subset=subset, keep="first")
drop_duplicates(df, subset) ==
    RowsAt(df, {i \in 1..Len(df) :
                   \A j \in 1..(i - 1) : KeyOf(df[j], subset) # KeyOf(df[i], subset)}, 1)

df_with_id(df) ==
    drop_duplicates(SelectSeq(df, LAMBDA r : r.event_id # None), <<"date", "event_id">>)

df_no_id(df) ==
    drop_duplicates(SelectSeq(df, LAMBDA r : r.event_id = None), <<"date", "title_norm">>)

\* Step 4 of the script: rank, sort, the two dedupe passes, their union.
DedupePasses(df) ==
    LET sorted == sort_values(df)
    IN  df_with_id(sorted) \o df_no_id(sorted)

\* Steps 1-3: calendar filter, coverage gate, combine.
Combine(rows_month, rows_day) ==
    LET df_month == CalendarFilter(rows_month)
        df_day == CalendarFilter(rows_day)
    IN  df_month \o DayMissing(df_day, MonthsOf(df_month))

\* A frame built from no rows has no columns: df["calendar_name"] raises
\* KeyError and the script stops before writing anything.
RebuildCrashes(rows_month, rows_day) == rows_month = <<>> \/ rows_day = <<>>

df_final_of(rows_month, rows_day) == DedupePasses(Combine(rows_month, rows_day))

\* ------------------------------------------------- extract_all_events.py
\* normalize_title of this script: no second collapse of spaces.
all_normalize_title(t) == DropPunct(Lower(clean(t)))

\* The row extract_events_from_html appends for one block: the venue class
\* as found, no year columns.
AllBlockRow(ev, calendar_name, source_type) ==
    [date |-> BlockDateId(ev).date,
     title |-> BlockTitle(ev),
     title_norm |-> all_normalize_title(BlockTitle(ev)),
     time_label |-> IF ev.time # None THEN clean(ev.time) ELSE None,
     location_code |-> FirstLocation(ev.classes),
     calendar_name |-> calendar_name,
     event_id |-> BlockDateId(ev).event_id,
     source_type |-> source_type]

\* Per block of the model (a table, evaluated once): whether a row is
\* appended (`if not title: continue`) and the row.
AllParsedBlocks ==
    [ev \in Blocks |-> [kept |-> ~Falsy(BlockTitle(ev)), row |-> AllBlockRow(ev, None, None)]]

RECURSIVE extract_events_from_html(_, _, _)
extract_events_from_html(blocks, calendar_name, source_type) ==
    IF blocks = <<>> THEN <<>>
    ELSE RowIfKept(AllParsedBlocks[Head(blocks)], calendar_name, source_type)
         \o extract_events_from_html(Tail(blocks), calendar_name, source_type)

RECURSIVE process_manifest(_, _)
process_manifest(items, source_type) ==
    IF items = <<>> THEN <<>>
    ELSE extract_events_from_html(Head(items).blocks, Head(items).CalendarName, source_type)
         \o process_manifest(Tail(items), source_type)

\* A popup page: whether it has an element with id EventSummary, that
\* element's text, the text of its DateHeader element (None: no such
\* element) and the ID parameter of its original URL (None: absent).
\* extract_popup gives no record for a page without a summary.
extract_popup(page) ==
    IF ~page.has_summary THEN <<>>
    ELSE <<[event_id |-> page.ID,
            popup_summary |-> clean(page.summary),
            popup_date_header |-> IF page.date_header # None THEN clean(page.date_header)
                                  ELSE None]>>

\* pop_rows: the records of the popup pages, in manifest order.
RECURSIVE pop_rows_of(_)
pop_rows_of(popup_items) ==
    IF popup_items = <<>> THEN <<>>
    ELSE extract_popup(Head(popup_items)) \o pop_rows_of(Tail(popup_items))

\* all_events before the enrichment: concat, rows without date removed,
\* duplicates by date, title_norm and location_code dropped.
all_events_of(rows_month, rows_day) ==
    drop_duplicates(SelectSeq(rows_month \o rows_day, LAMBDA r : r.date # None),
                    <<"date", "title_norm", "location_code">>)

\* The rows of right joined to one row of left: one per record of right with
\* an equal event_id (missing ids compare equal in a pandas merge), a single
\* row with missing popup columns when there is none.
MergeRow(l, right) ==
    LET hits == SelectSeq(right, LAMBDA p : p.event_id = l.event_id)
        joined(p) == [k \in DOMAIN l \cup {"popup_summary", "popup_date_header"} |->
                        IF k \in DOMAIN l THEN l[k] ELSE p[k]]
    IN  IF hits = <<>>
        THEN <<joined([popup_summary |-> None, popup_date_header |-> None])>>
        ELSE [n \in 1..Len(hits) |-> joined(hits[n])]

\* all_events.merge(df_pop, on="event_id", how="left")
RECURSIVE merge_left(_, _)
merge_left(left, right) ==
    IF left = <<>> THEN <<>>
    ELSE MergeRow(Head(left), right) \o merge_left(Tail(left), right)

\* A frame built from no rows has no columns: with no row from either
\* sub-manifest all_events["date"] raises KeyError.
ExtractCrashes(rows_month, rows_day) == rows_month = <<>> /\ rows_day = <<>>

\* ------------------------------------------------ fundraiser_analytics.py
\* Cell values read_csv takes for missing (its default NA strings); to_csv
\* writes a missing value as the empty cell.
NaStrings == {"", "NA", "N/A", "n/a", "NULL", "null", "NaN", "nan", "None", "<NA>"}

\* One cell through to_csv and read_csv.
CsvCell(v) == IF v = None \/ v \in NaStrings THEN None ELSE v

\* str(v) / astype(str): a missing value prints as "nan".
Str(v) == IF v = None THEN "nan" ELSE v

\* Position of the first whole word "host" in t, 0 when there is none.
HostAt(t) ==
    LET hits == {i \in 1..Len(t) :
                    /\ i + 3 <= Len(t)
                    /\ SubSeq(t, i, i + 3) = "host"
                    /\ (i = 1 \/ ~IsWord(Ch(t, i - 1)))
                    /\ (i + 3 = Len(t) \/ ~IsWord(Ch(t, i + 4)))}
    IN  IF hits = {} THEN 0 ELSE CHOOSE i \in hits : \A j \in hits : i <= j

\* re.sub(r"[^\w\s]", " ", t)
RECURSIVE PunctToSpace(_)
PunctToSpace(t) ==
    IF t = "" THEN ""
    ELSE (IF IsWord(Ch(t, 1)) \/ IsSpace(Ch(t, 1)) THEN Ch(t, 1) ELSE " ")
         \o PunctToSpace(Rest(t))

FIXES(t) ==
    IF t = "arabic scool at bilal" THEN "arabic school at bilal"
    ELSE IF t = "arabic scool" THEN "arabic school"
    ELSE t

\* The title with its host suffix left in.
canonical_title_keep_host(t) ==
    FIXES(Strip(CollapseSpace(PunctToSpace(Lower(clean(t))))))

canonical_title(t) ==
    LET low == Lower(clean(t))
        cut == IF HostAt(low) = 0 THEN low ELSE Strip(SubSeq(low, 1, HostAt(low) - 1))
    IN  FIXES(Strip(CollapseSpace(PunctToSpace(cut))))

canonical_loc(loc) ==
    LET l == clean(loc)
    IN  IF l = "" THEN ""
        ELSE IF StartsWith(Lower(l), "c_") THEN DropFirst(l, 2) ELSE l

\* make_event_key for one row.
make_event_key(date, title_canonical, time_label) ==
    clean(Str(date)) \o "||" \o Lower(clean(Str(title_canonical))) \o "||" \o Lower(clean(Str(time_label)))

\* df["year_int"].str.match(r"^\d{4}$") on date[:4]
YearOk(date) == Len(Prefix(date, 4)) = 4 /\ AllDigits(Prefix(date, 4))

\* The row of the analytics frame for one row of the canonical file
\* (columns normalised and filled, event_key added).
AnalyticsRow(r) ==
    LET date == clean(Str(CsvCell(r.date)))
        tc == canonical_title(clean(Str(CsvCell(r.title))))
        tl == clean(Str(CsvCell(r.time_label)))
    IN  [date |-> date,
         year_month |-> Prefix(date, 7),
         title_canonical |-> tc,
         time_label |-> tl,
         location_code |-> canonical_loc(Str(CsvCell(r.location_code))),
         event_id |-> CsvCell(r.event_id),
         event_key |-> make_event_key(date, tc, tl)]

SourceTypes == {"month_block", "day_block"}

\* The rows the canonical file can hold.
PossibleRows ==
    {[ParsedBlocks[ev].row EXCEPT !.calendar_name = PrimaryCalendar, !.source_type = st] :
        ev \in Blocks, st \in SourceTypes}

\* AnalyticsRow of each of them (a table, evaluated once).
AnalyticsRows == [r \in PossibleRows |-> AnalyticsRow(r)]

RECURSIVE MapAnalyticsRow(_)
MapAnalyticsRow(csv) ==
    IF csv = <<>> THEN <<>> ELSE <<AnalyticsRows[Head(csv)]>> \o MapAnalyticsRow(Tail(csv))

\* The frame main() works on: valid year, non-empty canonical title.
AnalyticsFrame(csv) ==
    SelectSeq(MapAnalyticsRow(csv), LAMBDA a : YearOk(a.date) /\ a.title_canonical # "")

\* No deduplication by event_key.
events_unique_keep_all(df) == df

events_unique_of(df) == drop_duplicates(df, <<"event_key">>)

\* The bookings without the filter on empty venue codes.
venue_bookings_unfiltered(df) == drop_duplicates(df, <<"event_key", "location_code">>)

venue_bookings_of(df) ==
    drop_duplicates(SelectSeq(df, LAMBDA a : Len(a.location_code) > 0),
                    <<"event_key", "location_code">>)

\* df["year_int"] of a row of the frame.
year_int(a) == DigitsValue(Prefix(a.date, 4))

\* n / d rounded to the nearest integer (d > 0).
Nearest(n, d) == (2 * n + d) \div (2 * d)

\* A numeric cell: Null when missing (None, NaN), else <<value>>.
Null == <<>>

\* round(pct_change(cur, prev), 1), in tenths of a percent (<<-667>> is
\* -66.7); Null when pct_change returns None.
pct_change(cur, prev) ==
    IF prev = Null \/ prev[1] = 0 THEN Null ELSE <<Nearest(1000 * (cur - prev[1]), prev[1])>>

\* The years of the frame in ascending order.
RECURSIVE SortedYears(_)
SortedYears(ys) ==
    IF ys = {} THEN <<>>
    ELSE LET y == CHOOSE y \in ys : \A z \in ys : y <= z
         IN  <<y>> \o SortedYears(ys \ {y})

\* yearly: one row per year of events_unique, events_prev = events.shift(1),
\* growth_pct None where events_prev is missing.
yearly_of(eu) ==
    LET years == SortedYears({year_int(eu[k]) : k \in 1..Len(eu)})
        events(y) == Cardinality({k \in 1..Len(eu) : year_int(eu[k]) = y})
    IN  [n \in 1..Len(years) |->
            [year_int |-> years[n],
             events |-> events(years[n]),
             events_prev |-> IF n = 1 THEN Null ELSE <<events(years[n - 1])>>,
             growth_pct |-> IF n = 1 THEN Null
                            ELSE pct_change(events(years[n]), <<events(years[n - 1])>>)]]

\* --------------------------------------------- make_verified_manifests.py
\* needle in s
Contains(s, needle) ==
    \E i \in 1..(Len(s) - Len(needle) + 1) : SubSeq(s, i, i + Len(needle) - 1) = needle

\* re.search(r"(?i)\bCalEvent\b", html)
HasCalEvent(html) ==
    LET low == Lower(html)
        w == "calevent"
    IN  \E i \in 1..(Len(low) - Len(w) + 1) :
            /\ SubSeq(low, i, i + Len(w) - 1) = w
            /\ (i = 1 \/ ~IsWord(Ch(low, i - 1)))
            /\ (i + Len(w) - 1 = Len(low) \/ ~IsWord(Ch(low, i + Len(w))))

\* The calendar-block test placed before the event-popup test.
classify_html_grid_first(html) ==
    LET low == Lower(html)
    IN  IF Contains(low, "class=\"calblock\"") \/ Contains(low, "class='calblock'")
        THEN (IF Contains(low, "class=\"blockview\"") \/ Contains(low, "class='blockview'")
              THEN "month_block" ELSE "calendar_grid_other")
        ELSE IF Contains(low, "class=\"eventpopup\"") \/ Contains(low, "id=\"eventsummary\"")
        THEN "event_popup"
        ELSE IF Contains(low, "<rss") \/ Contains(low, "<feed") \/ Contains(low, "op=rss")
        THEN "feed"
        ELSE IF Contains(low, "calcium web calendar") \/ Contains(low, "brownbearsw.com")
        THEN "calcium_other"
        ELSE "other"

classify_html(html) ==
    LET low == Lower(html)
    IN  IF Contains(low, "class=\"eventpopup\"") \/ Contains(low, "id=\"eventsummary\"")
        THEN "event_popup"
        ELSE IF Contains(low, "class=\"calblock\"") \/ Contains(low, "class='calblock'")
        THEN (IF Contains(low, "class=\"blockview\"") \/ Contains(low, "class='blockview'")
              THEN "month_block" ELSE "calendar_grid_other")
        ELSE IF Contains(low, "<rss") \/ Contains(low, "<feed") \/ Contains(low, "op=rss")
        THEN "feed"
        ELSE IF Contains(low, "calcium web calendar") \/ Contains(low, "brownbearsw.com")
        THEN "calcium_other"
        ELSE "other"

\* A manifest entry: path ("none": no path recorded, "missing": the file is
\* not on disk, "present"), the Op and CalendarName parameters of its
\* original URL, the text of its file and the event blocks in that text.
Skipped(it) == it.path # "present"

\* The month_block test without its condition on Op.
BucketMonthBlockAnyOp(it) ==
    LET html_type == classify_html(it.html)
    IN  IF html_type = "month_block" THEN "month_block"
        ELSE IF html_type = "event_popup" THEN "event_popup"
        ELSE IF it.Op = "ShowDay" /\ HasCalEvent(it.html) THEN "day_block"
        ELSE "other"

\* The loop without its final other.append(it).
BucketWithoutOther(it) ==
    LET html_type == classify_html(it.html)
    IN  IF html_type = "month_block" /\ it.Op \in {"ShowIt", "ShowMonth"} THEN "month_block"
        ELSE IF html_type = "event_popup" THEN "event_popup"
        ELSE IF it.Op = "ShowDay" /\ HasCalEvent(it.html) THEN "day_block"
        ELSE "none"

\* The bucket one iteration of the partition loop appends the entry to.
Bucket(it) ==
    LET html_type == classify_html(it.html)
    IN  IF html_type = "month_block" /\ it.Op \in {"ShowIt", "ShowMonth"} THEN "month_block"
        ELSE IF html_type = "event_popup" THEN "event_popup"
        ELSE IF it.Op = "ShowDay" /\ HasCalEvent(it.html) THEN "day_block"
        ELSE "other"

\* ------------------------------------------------- audit_html_types.py
\* classify_html of the audit script.
audit_classify_html(html) ==
    LET low == Lower(html)
    IN  IF Contains(low, "class=\"eventpopup\"") \/ Contains(low, "eventpopup .summary")
           \/ Contains(low, "id=\"eventsummary\"")
        THEN "event_popup"
        ELSE IF Contains(low, "class=\"calblock\"") \/ Contains(low, "class='calblock'")
        THEN (IF Contains(low, "class=\"blockview\"") \/ Contains(low, "class='blockview'")
              THEN "month_block" ELSE "calendar_grid_other")
        ELSE IF Contains(low, "<rss") \/ Contains(low, "<feed") \/ Contains(low, "op=rss")
        THEN "feed"
        ELSE IF Contains(low, "calcium web calendar") \/ Contains(low, "brownbearsw.com")
        THEN "calcium_other"
        ELSE "other"

\* ------------------------------------ verify_calcium_other_has_events.py
\* classify_html of the verification script.
verify_classify_html(html) ==
    LET low == Lower(html)
    IN  IF Contains(low, "class=\"eventpopup\"") \/ Contains(low, "id=\"eventsummary\"")
        THEN "event_popup"
        ELSE IF Contains(low, "class=\"calblock\"") \/ Contains(low, "class='calblock'")
        THEN (IF Contains(low, "class=\"blockview\"") \/ Contains(low, "class='blockview'")
              THEN "month_block" ELSE "calendar_grid_other")
        ELSE IF Contains(low, "<rss") \/ Contains(low, "<feed") \/ Contains(low, "op=rss")
        THEN "feed"
        ELSE IF Contains(low, "calcium web calendar") \/ Contains(low, "brownbearsw.com")
        THEN "calcium_other"
        ELSE "other"

\* ------------------------------------------------- audit_html_types.py
\* head = html.lstrip()[:200].lower()
is_xml_doc(html) ==
    LET head == Lower(Prefix(LStrip(html), 200))
    IN  StartsWith(head, "<?xml") /\ ~Contains(head, "<html")

\* iter_existing_files: the entries with a path whose file exists.
iter_existing_files(manifest_items) == SelectSeq(manifest_items, LAMBDA it : it.path = "present")

\* What one iteration of the audit loop does with a file: "empty" and "xml"
\* for the two early continues, else the label it counts the file under.
AuditOutcome(html) ==
    IF Strip(html) = "" THEN "empty"
    ELSE IF is_xml_doc(html) THEN "xml"
    ELSE audit_classify_html(html)

\* ------------------------------------------------------------------ inputs
MonthHtml == "<div class=\"CalBlock\"><div class=\"BlockView\"><div class=\"CalEvent\">"

DayHtml == "<div class=\"DayView\"><div class=\"CalEvent\">"

Page(cal, op, html, ev) ==
    [path |-> "present", Op |-> op, CalendarName |-> cal, html |-> html, blocks |-> <<ev>>]

\* Pages of the month_block and day_block sub-manifests.
MonthPages ==
    {Page(PrimaryCalendar, "ShowMonth", MonthHtml, b) : b \in Blocks}
        \cup {Page("OtherCal", "ShowMonth", MonthHtml, Block0)}

DayPages ==
    {Page(PrimaryCalendar, "ShowDay", DayHtml, b) : b \in Blocks}
        \cup {Page("OtherCal", "ShowDay", DayHtml, Block0)}

\* Month pages given to the grid parser alone.
GridPages == {Page(PrimaryCalendar, "ShowMonth", MonthHtml, b) : b \in GridBlocks}

\* Texts of archived files the Partitioner meets.
Htmls ==
    { MonthHtml, DayHtml,
      "<div class='calblock'><div class=\"CalEvent\">",
      "<div class=\"CalBlock\"><div class='blockview'>",
      "<DIV ID=\"EventSummary\"><div class=\"CalBlock\">",
      "<style>.EventPopup .Summary</style><div class=\"CalBlock\"><div class='blockview'>",
      "<?xml version=\"1.0\"?><rss>",
      "<html>Calcium Web Calendar",
      "" }

ManifestEntries ==
    {[path |-> "present", Op |-> op, CalendarName |-> PrimaryCalendar, html |-> h, blocks |-> <<>>] :
        op \in {"ShowMonth", "ShowDay", "ShowEvent"}, h \in Htmls}
    \cup {[path |-> p, Op |-> "ShowMonth", CalendarName |-> PrimaryCalendar, html |-> MonthHtml, blocks |-> <<>>] :
        p \in {"none", "missing"}}

SeqsUpTo(S, n) == UNION {[1..k -> S] : k \in 0..n}

\* Blocks of the pages extract_all_events.py is run on: the Friday Prayer
\* block with id 899, without an id, and with a Date that does not parse.
ExtractBlocks == {b \in Blocks : b.a = "Friday Prayer" /\ b.classes = Block0.classes}

ExtractMonthPages == {Page(PrimaryCalendar, "ShowMonth", MonthHtml, b) : b \in ExtractBlocks}

ExtractDayPages == {Page(PrimaryCalendar, "ShowDay", DayHtml, b) : b \in ExtractBlocks}

\* Pages of manifest_event_popup.json.
PopupPages ==
    { [ID |-> "899", has_summary |-> TRUE, summary |-> "Friday  Prayer at the Masjid ",
       date_header |-> "Friday 21 May 2021"],
      [ID |-> "899", has_summary |-> TRUE, summary |-> "Jumuah", date_header |-> None],
      [ID |-> None, has_summary |-> TRUE, summary |-> "Eid Bazaar", date_header |-> None],
      [ID |-> "900", has_summary |-> FALSE, summary |-> None, date_header |-> None] }

\* ------------------------------------------------------------------- state
\* ------------------------------------------------ wayback_bulk_download.py
WAYBACK_WEB == "https://web.archive.org/web/"

wayback_url(ts, original) == WAYBACK_WEB \o ts \o "id_/" \o original

\* The characters of the class [A-Za-z0-9._-].
SafeChars == UpperChars \o LowerChars \o DigitChars \o "._-"

\* re.sub(r"[^A-Za-z0-9._-]+", "_", s): every run of other characters
\* becomes one underscore (in_run: the previous character was one of them).
RECURSIVE SubUnsafeRuns(_, _)
SubUnsafeRuns(s, in_run) ==
    IF s = "" THEN ""
    ELSE IF InStr(Ch(s, 1), SafeChars)
         THEN Ch(s, 1) \o SubUnsafeRuns(Rest(s), FALSE)
         ELSE (IF in_run THEN "" ELSE "_") \o SubUnsafeRuns(Rest(s), TRUE)

safe_filename(s) == Prefix(SubUnsafeRuns(s, FALSE), 180)

\* path = outdir / ts[:6] / f"{ts}_{fn}.html"
PathOf(c) ==
    "wayback_dump/" \o Prefix(c.timestamp, 6) \o "/" \o c.timestamp \o "_"
        \o safe_filename(c.original) \o ".html"

\* fetch(session, url, retries=4)
Retries == 4

\* for i in range(retries): another attempt is made after i attempts.
InRangeInclusive(i, retries) == i <= retries

InRange(i, retries) == i < retries

\* What an attempt can fail with: a status other than 200 or an exception
\* of session.get.
FetchErrors == {"HTTP 503", "Read timed out."}

\* Rows of the CDX listing: two day pages of one timestamp whose URLs
\* differ in the separator of the query parameters, a month page of that
\* timestamp, and the first day page captured at another time.
Captures ==
    { [timestamp |-> "20210521120000", original |-> "http://h/c.php?Op=ShowDay&Date=2021/5/21"],
      [timestamp |-> "20210521120000", original |-> "http://h/c.php?Op=ShowDay;Date=2021/5/21"],
      [timestamp |-> "20210521120000", original |-> "http://h/c.php?Op=ShowMonth"],
      [timestamp |-> "20190309080000", original |-> "http://h/c.php?Op=ShowDay&Date=2021/5/21"] }

\* PathOf of each of them (a table, evaluated once).
Paths == [c \in Captures |-> PathOf(c)]

\* What outdir holds when the downloader starts: nothing, or the file an
\* earlier run wrote for one capture.
EarlierFiles == {{}} \cup {{[path |-> Paths[c], content |-> c]} : c \in Captures}

\* A manifest entry (error None: the entry has no error key).
Entry(c, path, error) ==
    [timestamp |-> c.timestamp, original |-> c.original,
     snapshot_url |-> wayback_url(c.timestamp, c.original),
     path |-> path, error |-> error]

VARIABLES
    pc,                   \* stage of the run
    manifest,             \* manifest.json
    pos,                  \* next entry of the partition loop (1-based)
    month_block,          \* manifest_month_block.json
    event_popup,          \* manifest_event_popup.json
    day_block,            \* manifest_day_block.json
    other,                \* manifest_other.json
    raw_month,            \* rows parsed from the month_block pages
    raw_day,              \* rows parsed from the day_block pages
    events_master_clean,  \* rows of events_master_clean.csv (df_final)
    events_unique,        \* analytics: one row per event_key
    venue_bookings,       \* analytics: one row per (event_key, location_code)
    html_type,            \* partition loop: label of the entry last classified
    audit_pos,            \* audit loop: next of the existing files (1-based)
    audit_type,           \* audit loop: label of the file last classified (t)
    counts,               \* audit: files counted per label
    skipped_xml,          \* audit: XML documents passed over
    skipped_empty,        \* audit: blank files passed over
    in_csv,               \* what lies at IN_CSV (bilal_wayback_html/events_master_clean.csv)
    out_dir,              \* analytics: OUT_DIR exists
    yearly,               \* analytics: rows of yearly_summary.csv
    df_pop,               \* extract_all_events.py: the popup records
    all_events,           \* extract_all_events.py: the events_raw sheet
    caps,                 \* downloader: the captures the CDX listing gave
    cap_pos,              \* downloader: next capture of the loop (1-based)
    attempt,              \* fetch: attempts made so far for the current capture (i)
    last,                 \* fetch: the failure of the latest attempt
    files,                \* downloader: files under outdir, each with the capture it holds
    dl_manifest,          \* downloader: the manifest list
    attempts_log          \* fetch: attempts made for each capture already processed

partitionVars == <<html_type>>

analyticsVars == <<in_csv, out_dir, yearly>>

extractVars == <<df_pop, all_events>>

auditVars == <<audit_pos, audit_type, counts, skipped_xml, skipped_empty>>

downloadVars == <<caps, cap_pos, attempt, last, files, dl_manifest, attempts_log>>

vars == <<pc, manifest, pos, month_block, event_popup, day_block, other,
          raw_month, raw_day, events_master_clean, events_unique, venue_bookings,
          partitionVars, auditVars, analyticsVars, extractVars, downloadVars>>

\* The six labels of classify_html.
Labels == {"event_popup", "month_block", "calendar_grid_other", "feed", "calcium_other", "other"}

\* Nothing classified, nothing counted.
ScriptsIdle ==
    /\ html_type = None
    /\ audit_pos = 1
    /\ audit_type = None
    /\ counts = [l \in Labels |-> 0]
    /\ skipped_xml = 0
    /\ skipped_empty = 0
    /\ out_dir = FALSE
    /\ yearly = <<>>
    /\ df_pop = <<>>
    /\ all_events = <<>>

\* ------------------------------------------- reconcile and analyse (Spec)
\* The downloader has not run.
DownloadIdle ==
    /\ caps = <<>>
    /\ cap_pos = 1
    /\ attempt = 0
    /\ last = None
    /\ files = {}
    /\ dl_manifest = <<>>
    /\ attempts_log = <<>>

Init ==
    /\ pc = "collect"
    /\ in_csv \in {"missing", "no_date"}
    /\ manifest = <<>>
    /\ pos = 1
    /\ month_block = <<>>
    /\ event_popup = <<>>
    /\ day_block = <<>>
    /\ other = <<>>
    /\ raw_month = <<>>
    /\ raw_day = <<>>
    /\ events_master_clean = <<>>
    /\ events_unique = <<>>
    /\ venue_bookings = <<>>
    /\ ScriptsIdle
    /\ DownloadIdle

\* One more page listed in manifest_month_block.json.
AddMonthPage ==
    /\ pc = "collect"
    /\ day_block = <<>>
    /\ Len(month_block) + Len(day_block) < MaxRecs
    /\ \E p \in MonthPages : month_block' = Append(month_block, p)
    /\ UNCHANGED <<pc, manifest, pos, event_popup, day_block, other,
                   raw_month, raw_day, events_master_clean, events_unique, venue_bookings>>
    /\ UNCHANGED <<partitionVars, auditVars, analyticsVars>>
    /\ UNCHANGED extractVars
    /\ UNCHANGED downloadVars

\* One more page listed in manifest_day_block.json.
AddDayPage ==
    /\ pc = "collect"
    /\ Len(month_block) + Len(day_block) < MaxRecs
    /\ \E p \in DayPages : day_block' = Append(day_block, p)
    /\ UNCHANGED <<pc, manifest, pos, month_block, event_popup, other,
                   raw_month, raw_day, events_master_clean, events_unique, venue_bookings>>
    /\ UNCHANGED <<partitionVars, auditVars, analyticsVars>>
    /\ UNCHANGED extractVars
    /\ UNCHANGED downloadVars

\* rebuild_events_safe.py, top to bottom: the month pages are parsed and
\* filtered, then the day pages, then the frames are combined, deduplicated
\* and written. A frame built from no rows stops the script where its
\* calendar_name column is first read.
Rebuild ==
    /\ pc = "collect"
    /\ LET rows_month == parse_manifest(month_block, "month_block")
           rows_day == parse_manifest(day_block, "day_block")
       IN  /\ raw_month' = rows_month
           /\ raw_day' = IF rows_month = <<>> THEN <<>> ELSE rows_day
           /\ IF RebuildCrashes(rows_month, rows_day)
              THEN /\ pc' = "crashed"
                   /\ UNCHANGED <<events_master_clean, in_csv>>
              ELSE /\ pc' = "rebuilt"
                   /\ events_master_clean' = df_final_of(rows_month, rows_day)
                   /\ in_csv' = "written"
    /\ UNCHANGED <<manifest, pos, month_block, event_popup, day_block, other,
                   events_unique, venue_bookings, out_dir, yearly>>
    /\ UNCHANGED <<partitionVars, auditVars>>
    /\ UNCHANGED extractVars
    /\ UNCHANGED downloadVars

\* fundraiser_analytics.py main() on the file the Reconciler wrote, up to
\* the yearly summary.
Analytics ==
    /\ pc = "rebuilt"
    /\ in_csv = "written"
    /\ pc' = "analysed"
    /\ out_dir' = TRUE
    /\ LET df == AnalyticsFrame(events_master_clean)
       IN  /\ events_unique' = events_unique_of(df)
           /\ venue_bookings' = venue_bookings_of(df)
           /\ yearly' = yearly_of(events_unique_of(df))
    /\ UNCHANGED <<manifest, pos, month_block, event_popup, day_block, other,
                   raw_month, raw_day, events_master_clean, in_csv>>
    /\ UNCHANGED <<partitionVars, auditVars>>
    /\ UNCHANGED extractVars
    /\ UNCHANGED downloadVars

\* fundraiser_analytics.py main() when there is no file at IN_CSV:
\* FileNotFoundError at line 87.
AnalyticsMissingInput ==
    /\ pc = "crashed"
    /\ in_csv = "missing"
    /\ pc' = "fatal"
    /\ UNCHANGED <<manifest, pos, month_block, event_popup, day_block, other,
                   raw_month, raw_day, events_master_clean, events_unique, venue_bookings>>
    /\ UNCHANGED <<partitionVars, auditVars, analyticsVars>>
    /\ UNCHANGED extractVars
    /\ UNCHANGED downloadVars

\* fundraiser_analytics.py main() when the file at IN_CSV has no date
\* column: OUT_DIR.mkdir (line 89), read_csv, then ValueError at line 95.
AnalyticsMissingDate ==
    /\ pc = "crashed"
    /\ in_csv = "no_date"
    /\ pc' = "fatal"
    /\ out_dir' = TRUE
    /\ UNCHANGED <<manifest, pos, month_block, event_popup, day_block, other,
                   raw_month, raw_day, events_master_clean, events_unique, venue_bookings,
                   in_csv, yearly>>
    /\ UNCHANGED <<partitionVars, auditVars>>
    /\ UNCHANGED extractVars
    /\ UNCHANGED downloadVars

Next ==
    \/ AddMonthPage
    \/ AddDayPage
    \/ Rebuild
    \/ Analytics
    \/ AnalyticsMissingInput
    \/ AnalyticsMissingDate

Spec == Init /\ [][Next]_vars

\* ------------------------------------------- partitioning (PartitionSpec)
PartitionInit ==
    /\ pc = "partition"
    /\ in_csv = "missing"
    /\ manifest \in SeqsUpTo(ManifestEntries, MaxManifest)
    /\ pos = 1
    /\ month_block = <<>>
    /\ event_popup = <<>>
    /\ day_block = <<>>
    /\ other = <<>>
    /\ raw_month = <<>>
    /\ raw_day = <<>>
    /\ events_master_clean = <<>>
    /\ events_unique = <<>>
    /\ venue_bookings = <<>>
    /\ ScriptsIdle
    /\ DownloadIdle

\* One iteration of the loop over the manifest.
PartitionStep ==
    /\ pc = "partition"
    /\ pos <= Len(manifest)
    /\ pos' = pos + 1
    /\ LET it == manifest[pos]
           b == IF Skipped(it) THEN "skip" ELSE Bucket(it)
       IN  /\ month_block' = IF b = "month_block" THEN Append(month_block, it) ELSE month_block
           /\ event_popup' = IF b = "event_popup" THEN Append(event_popup, it) ELSE event_popup
           /\ day_block' = IF b = "day_block" THEN Append(day_block, it) ELSE day_block
           /\ other' = IF b = "other" THEN Append(other, it) ELSE other
           /\ html_type' = IF Skipped(it) THEN html_type ELSE classify_html(it.html)
    /\ UNCHANGED <<pc, manifest, raw_month, raw_day, events_master_clean,
                   events_unique, venue_bookings, auditVars, analyticsVars>>
    /\ UNCHANGED extractVars
    /\ UNCHANGED downloadVars

\* The loop is over: the four sub-manifests are written.
PartitionDone ==
    /\ pc = "partition"
    /\ pos > Len(manifest)
    /\ pc' = "partitioned"
    /\ UNCHANGED <<manifest, pos, month_block, event_popup, day_block, other,
                   raw_month, raw_day, events_master_clean, events_unique, venue_bookings>>
    /\ UNCHANGED <<partitionVars, auditVars, analyticsVars>>
    /\ UNCHANGED extractVars
    /\ UNCHANGED downloadVars

\* audit_html_types.py main(): one iteration of the loop over the existing
\* files of the same manifest.
AuditStep ==
    /\ pc = "partitioned"
    /\ audit_pos <= Len(iter_existing_files(manifest))
    /\ audit_pos' = audit_pos + 1
    /\ LET o == AuditOutcome(iter_existing_files(manifest)[audit_pos].html)
       IN  /\ skipped_empty' = IF o = "empty" THEN skipped_empty + 1 ELSE skipped_empty
           /\ skipped_xml' = IF o = "xml" THEN skipped_xml + 1 ELSE skipped_xml
           /\ audit_type' = IF o \in Labels THEN o ELSE audit_type
           /\ counts' = IF o \in Labels THEN [counts EXCEPT ![o] = @ + 1] ELSE counts
    /\ UNCHANGED <<pc, manifest, pos, month_block, event_popup, day_block, other,
                   raw_month, raw_day, events_master_clean, events_unique, venue_bookings,
                   partitionVars, analyticsVars>>
    /\ UNCHANGED extractVars
    /\ UNCHANGED downloadVars

\* The audit loop is over.
AuditDone ==
    /\ pc = "partitioned"
    /\ audit_pos > Len(iter_existing_files(manifest))
    /\ pc' = "audited"
    /\ UNCHANGED <<manifest, pos, month_block, event_popup, day_block, other,
                   raw_month, raw_day, events_master_clean, events_unique, venue_bookings,
                   partitionVars, auditVars, analyticsVars>>
    /\ UNCHANGED extractVars
    /\ UNCHANGED downloadVars

PartitionNext == PartitionStep \/ PartitionDone \/ AuditStep \/ AuditDone

PartitionSpec == PartitionInit /\ [][PartitionNext]_vars

\* --------------------------------- extract_all_events.py (ExtractSpec)
ExtractInit ==
    /\ pc = "extract"
    /\ in_csv = "missing"
    /\ manifest = <<>>
    /\ pos = 1
    /\ month_block \in SeqsUpTo(ExtractMonthPages, MaxExtractPages)
    /\ day_block \in SeqsUpTo(ExtractDayPages, MaxExtractPages)
    /\ event_popup \in SeqsUpTo(PopupPages, MaxPopups)
    /\ other = <<>>
    /\ raw_month = <<>>
    /\ raw_day = <<>>
    /\ events_master_clean = <<>>
    /\ events_unique = <<>>
    /\ venue_bookings = <<>>
    /\ ScriptsIdle
    /\ DownloadIdle

\* extract_all_events.py main(), up to the enriched events table; with no
\* row at all it stops at all_events["date"] before the popups are read.
ExtractAll ==
    /\ pc = "extract"
    /\ LET rows_month == process_manifest(month_block, "month_block")
           rows_day == process_manifest(day_block, "day_block")
           pop_rows == pop_rows_of(event_popup)
       IN  IF ExtractCrashes(rows_month, rows_day)
           THEN /\ pc' = "extract_crashed"
                /\ UNCHANGED extractVars
           ELSE /\ pc' = "extracted"
                /\ df_pop' = pop_rows
                /\ all_events' = IF pop_rows = <<>>
                                 THEN all_events_of(rows_month, rows_day)
                                 ELSE merge_left(all_events_of(rows_month, rows_day), pop_rows)
    /\ UNCHANGED <<manifest, pos, month_block, event_popup, day_block, other,
                   raw_month, raw_day, events_master_clean, events_unique, venue_bookings>>
    /\ UNCHANGED <<partitionVars, auditVars, analyticsVars>>
    /\ UNCHANGED downloadVars

ExtractNext == ExtractAll

ExtractSpec == ExtractInit /\ [][ExtractNext]_vars

\* ------------------- rebuild_events_safe.py: the grid parser (GridSpec)
GridInit ==
    /\ pc = "parse"
    /\ in_csv = "missing"
    /\ manifest = <<>>
    /\ pos = 1
    /\ month_block \in SeqsUpTo(GridPages, MaxGridPages)
    /\ day_block = <<>>
    /\ event_popup = <<>>
    /\ other = <<>>
    /\ raw_month = <<>>
    /\ raw_day = <<>>
    /\ events_master_clean = <<>>
    /\ events_unique = <<>>
    /\ venue_bookings = <<>>
    /\ ScriptsIdle
    /\ DownloadIdle

\* main(): rows_month = parse_manifest(manifest_month_block.json, "month_block")
ParseMonthManifest ==
    /\ pc = "parse"
    /\ pc' = "parsed"
    /\ raw_month' = parse_manifest(month_block, "month_block")
    /\ UNCHANGED <<manifest, pos, month_block, event_popup, day_block, other,
                   raw_day, events_master_clean, events_unique, venue_bookings>>
    /\ UNCHANGED <<partitionVars, auditVars, analyticsVars>>
    /\ UNCHANGED extractVars
    /\ UNCHANGED downloadVars

GridNext == ParseMonthManifest

GridSpec == GridInit /\ [][GridNext]_vars

\* ------------------------------- wayback_bulk_download.py (DownloadSpec)
DownloadInit ==
    /\ pc = "download"
    /\ in_csv = "missing"
    /\ manifest = <<>>
    /\ pos = 1
    /\ month_block = <<>>
    /\ day_block = <<>>
    /\ event_popup = <<>>
    /\ other = <<>>
    /\ raw_month = <<>>
    /\ raw_day = <<>>
    /\ events_master_clean = <<>>
    /\ events_unique = <<>>
    /\ venue_bookings = <<>>
    /\ ScriptsIdle
    /\ caps \in SeqsUpTo(Captures, MaxCaps)
    /\ cap_pos = 1
    /\ attempt = 0
    /\ last = None
    /\ files \in EarlierFiles
    /\ dl_manifest = <<>>
    /\ attempts_log = <<>>

\* The capture of the current iteration, and whether its path exists.
CurCap == caps[cap_pos]

CurPathExists == \E f \in files : f.path = Paths[CurCap]

\* if path.exists(): the entry is appended without a fetch (lines 92-94).
SkipExisting ==
    /\ pc = "download"
    /\ cap_pos <= Len(caps)
    /\ CurPathExists
    /\ dl_manifest' = Append(dl_manifest, Entry(CurCap, Paths[CurCap], None))
    /\ attempts_log' = Append(attempts_log, 0)
    /\ cap_pos' = cap_pos + 1
    /\ UNCHANGED <<pc, caps, attempt, last, files>>
    /\ UNCHANGED <<manifest, pos, month_block, event_popup, day_block, other,
                   raw_month, raw_day, events_master_clean, events_unique, venue_bookings>>
    /\ UNCHANGED <<partitionVars, auditVars, analyticsVars, extractVars>>

\* One pass of the loop of fetch that fails: last is set, fetch sleeps.
FetchAttemptFails ==
    /\ pc = "download"
    /\ cap_pos <= Len(caps)
    /\ ~CurPathExists
    /\ InRange(attempt, Retries)
    /\ attempt' = attempt + 1
    /\ \E e \in FetchErrors : last' = e
    /\ UNCHANGED <<pc, caps, cap_pos, files, dl_manifest, attempts_log>>
    /\ UNCHANGED <<manifest, pos, month_block, event_popup, day_block, other,
                   raw_month, raw_day, events_master_clean, events_unique, venue_bookings>>
    /\ UNCHANGED <<partitionVars, auditVars, analyticsVars, extractVars>>

\* One pass of the loop of fetch that returns the text: main writes the
\* file and appends the entry (lines 97-99).
FetchReturns ==
    /\ pc = "download"
    /\ cap_pos <= Len(caps)
    /\ ~CurPathExists
    /\ InRange(attempt, Retries)
    /\ files' = files \cup {[path |-> Paths[CurCap], content |-> CurCap]}
    /\ dl_manifest' = Append(dl_manifest, Entry(CurCap, Paths[CurCap], None))
    /\ attempts_log' = Append(attempts_log, attempt + 1)
    /\ cap_pos' = cap_pos + 1
    /\ attempt' = 0
    /\ last' = None
    /\ UNCHANGED <<pc, caps>>
    /\ UNCHANGED <<manifest, pos, month_block, event_popup, day_block, other,
                   raw_month, raw_day, events_master_clean, events_unique, venue_bookings>>
    /\ UNCHANGED <<partitionVars, auditVars, analyticsVars, extractVars>>

\* The loop of fetch is over: raise last; main appends the entry with the
\* empty path and the error (lines 100-101).
FetchRaises ==
    /\ pc = "download"
    /\ cap_pos <= Len(caps)
    /\ ~CurPathExists
    /\ ~InRange(attempt, Retries)
    /\ dl_manifest' = Append(dl_manifest, Entry(CurCap, "", last))
    /\ attempts_log' = Append(attempts_log, attempt)
    /\ cap_pos' = cap_pos + 1
    /\ attempt' = 0
    /\ last' = None
    /\ UNCHANGED <<pc, caps, files>>
    /\ UNCHANGED <<manifest, pos, month_block, event_popup, day_block, other,
                   raw_month, raw_day, events_master_clean, events_unique, venue_bookings>>
    /\ UNCHANGED <<partitionVars, auditVars, analyticsVars, extractVars>>

\* The loop over caps is over: manifest.json is written (line 105).
SaveManifest ==
    /\ pc = "download"
    /\ cap_pos > Len(caps)
    /\ pc' = "downloaded"
    /\ UNCHANGED downloadVars
    /\ UNCHANGED <<manifest, pos, month_block, event_popup, day_block, other,
                   raw_month, raw_day, events_master_clean, events_unique, venue_bookings>>
    /\ UNCHANGED <<partitionVars, auditVars, analyticsVars, extractVars>>

DownloadNext == SkipExisting \/ FetchAttemptFails \/ FetchReturns \/ FetchRaises \/ SaveManifest

DownloadSpec == DownloadInit /\ [][DownloadNext]_vars

\* ------------------------------------------------------ claim vocabulary
Range(q) == {q[i] : i \in 1..Len(q)}

\* The Reconciler has run to the end and written its table.
Rebuilt == pc \in {"rebuilt", "analysed"}

\* The rows entering the dedupe passes.
Combined == Combine(raw_month, raw_day)

\* Analytics event key of a row of the canonical table.
EventKeyOf(r) == AnalyticsRows[r].event_key

Perms(q) == {[i \in 1..Len(q) |-> q[f[i]]] : f \in Permutations(1..Len(q))}

\* --------------------------------------------------------------------- C1
\* C1: whenever a month_block record of the primary calendar exists for a
\* (year, month), no day_block record dated in that (year, month) is in the
\* canonical table; day_block rows appear only for months without one.
CoverageGate ==
    Rebuilt =>
        \A i \in 1..Len(events_master_clean) :
            events_master_clean[i].source_type = "day_block" =>
                \A j \in 1..Len(raw_month) :
                    ~(/\ raw_month[j].calendar_name = PrimaryCalendar
                      /\ Prefix(raw_month[j].date, 7) = Prefix(events_master_clean[i].date, 7))

\* A run where a day record of a covered month was left out and a day
\* record of an uncovered month was taken.
CoverageGateWitness ==
    /\ Rebuilt
    /\ \E m \in Range(CalendarFilter(raw_month)), d \in Range(CalendarFilter(raw_day)) :
           Prefix(m.date, 7) = Prefix(d.date, 7)
    /\ \E r \in Range(events_master_clean) : r.source_type = "day_block"

\* --------------------------------------------------------------------- C2
\* C2: when the records entering deduplication are two records without
\* event_id, with the same date and normalized title and different venue
\* codes, the Reconciler and the analytics stage yield exactly one canonical
\* event and exactly two VenueBookings.
DedupFallbackTwoBookings ==
    (/\ pc = "analysed"
     /\ Len(Combined) = 2
     /\ Combined[1].event_id = None /\ Combined[2].event_id = None
     /\ Combined[1].date = Combined[2].date
     /\ Combined[1].title_norm = Combined[2].title_norm
     /\ ~Falsy(Combined[1].location_code) /\ ~Falsy(Combined[2].location_code)
     /\ Combined[1].location_code # Combined[2].location_code)
    => (/\ Len(events_master_clean) = 1
        /\ Len(events_unique) = 1
        /\ Len(venue_bookings) = 2)

\* --------------------------------------------------------------------- C3
\* C3 as stated: no two rows of the canonical table written by the
\* Reconciler have the same analytics event key (date, canonical title,
\* time label).
CanonicalEventKeysUnique ==
    Rebuilt =>
        \A i, j \in 1..Len(events_master_clean) :
            i < j => EventKeyOf(events_master_clean[i]) # EventKeyOf(events_master_clean[j])

\* C3 amended: the canonical table is unique under the reconciliation keys
\* ((date, event_id) among rows with an id, (date, normalized title) among
\* rows without), and the analytics event key is unique in the unique-event
\* set the analytics stage derives from it.
EventIdentityUnique ==
    /\ Rebuilt =>
           \A i, j \in 1..Len(events_master_clean) :
               LET a == events_master_clean[i]
                   b == events_master_clean[j]
               IN  i < j =>
                       /\ (a.event_id # None /\ b.event_id # None)
                              => <<a.date, a.event_id>> # <<b.date, b.event_id>>
                       /\ (a.event_id = None /\ b.event_id = None)
                              => <<a.date, a.title_norm>> # <<b.date, b.title_norm>>
    /\ pc = "analysed" =>
           \A i, j \in 1..Len(events_unique) :
               i < j => events_unique[i].event_key # events_unique[j].event_key

\* The canonical table holds two rows of one event key and the analytics
\* stage has collapsed them.
EventIdentityWitness ==
    /\ pc = "analysed"
    /\ \E i, j \in 1..Len(events_master_clean) :
           i < j /\ EventKeyOf(events_master_clean[i]) = EventKeyOf(events_master_clean[j])
    /\ Len(events_unique) < Len(events_master_clean)
    /\ Len(events_unique) > 0

\* --------------------------------------------------------------------- C4
\* C4: for a month_block record without a venue code and a day_block record
\* with one, both of the primary calendar and with the same (date,
\* event_id), the canonical table has exactly one row for that key, it is a
\* month_block row, and it is that month_block record when it is the only
\* month record.
DedupPriority ==
    Rebuilt =>
        \A m \in Range(CalendarFilter(raw_month)), d \in Range(CalendarFilter(raw_day)) :
            (/\ m.event_id # None
             /\ m.date = d.date /\ m.event_id = d.event_id
             /\ m.location_code = None /\ d.location_code # None)
            => LET hits == {i \in 1..Len(events_master_clean) :
                               /\ events_master_clean[i].date = m.date
                               /\ events_master_clean[i].event_id = m.event_id}
               IN  /\ Cardinality(hits) = 1
                   /\ \A i \in hits :
                          /\ events_master_clean[i].source_type = "month_block"
                          /\ Len(raw_month) = 1 => events_master_clean[i] = m

\* The two records of the claim were the whole input and the month record
\* is the table.
DedupPriorityWitness ==
    /\ Rebuilt
    /\ Len(raw_month) = 1 /\ Len(raw_day) = 1
    /\ raw_month[1].calendar_name = PrimaryCalendar
    /\ raw_day[1].calendar_name = PrimaryCalendar
    /\ raw_month[1].event_id # None
    /\ raw_month[1].date = raw_day[1].date
    /\ raw_month[1].event_id = raw_day[1].event_id
    /\ raw_month[1].location_code = None /\ raw_day[1].location_code # None
    /\ raw_month[1].title_norm # raw_day[1].title_norm
    /\ events_master_clean = <<raw_month[1]>>

\* --------------------------------------------------------------------- C5
\* C5: the canonical table, as a set of rows, is the same for every order
\* of the entries of the month_block and day_block manifests.
OrderIndependent ==
    Rebuilt =>
        \A pm \in Perms(month_block), pd \in Perms(day_block) :
            Range(df_final_of(parse_manifest(pm, "month_block"), parse_manifest(pd, "day_block")))
                = Range(events_master_clean)

\* --------------------------------------------------------------------- C6
\* C6: reconciling the canonical table again returns it unchanged, rows and
\* row order: the dedupe passes applied to it, and the combine step followed
\* by the dedupe passes applied to its month and day rows.
ReconcileIdempotent ==
    Rebuilt =>
        /\ DedupePasses(events_master_clean) = events_master_clean
        /\ DedupePasses(Combine(SelectSeq(events_master_clean, LAMBDA r : r.source_type = "month_block"),
                                SelectSeq(events_master_clean, LAMBDA r : r.source_type = "day_block")))
               = events_master_clean

\* A canonical table with two rows of equal sort rank, whose order only the
\* stability of the sort fixes.
ReconcileIdempotentWitness ==
    /\ Rebuilt
    /\ \E i, j \in 1..Len(events_master_clean) :
           /\ i < j
           /\ ~RowLess(events_master_clean[i], events_master_clean[j])
           /\ ~RowLess(events_master_clean[j], events_master_clean[i])

\* --------------------------------------------------------------------- C7
\* C7: no two venue bookings share (event_key, location_code) and no
\* booking has the empty string as its location_code.
VenueBookingsUnique ==
    pc = "analysed" =>
        /\ \A i, j \in 1..Len(venue_bookings) :
               i < j => <<venue_bookings[i].event_key, venue_bookings[i].location_code>>
                            # <<venue_bookings[j].event_key, venue_bookings[j].location_code>>
        /\ \A i \in 1..Len(venue_bookings) : venue_bookings[i].location_code # ""

\* The analytics frame held a row with an empty venue code and two rows of
\* one (event_key, location_code), and bookings were derived.
VenueBookingsWitness ==
    /\ pc = "analysed"
    /\ LET df == AnalyticsFrame(events_master_clean)
       IN  /\ \E i \in 1..Len(df) : df[i].location_code = ""
           /\ \E i, j \in 1..Len(df) :
                  /\ i < j
                  /\ df[i].location_code # ""
                  /\ df[i].event_key = df[j].event_key
                  /\ df[i].location_code = df[j].location_code
    /\ Len(venue_bookings) > 0

\* --------------------------------------------------------------------- C8
\* C8: a block whose date cannot be resolved gives no parsed row, so no row
\* of the parsed frames or of the canonical table lacks a date, and the
\* parsed month rows are exactly the dated blocks of the month pages.
MissingDateExcluded ==
    pc # "collect" =>
        /\ \A r \in Range(raw_month) \cup Range(raw_day) \cup Range(events_master_clean) :
               ~Falsy(r.date) /\ r.year_month = Prefix(r.date, 7)
        /\ Len(raw_month) =
               Cardinality({i \in 1..Len(month_block) :
                               ~Falsy(BlockDateId(month_block[i].blocks[1]).date)})

\* A month page carried an undated block, and a table was written.
MissingDateWitness ==
    /\ Rebuilt
    /\ \E i \in 1..Len(month_block) :
           /\ month_block[i].CalendarName = PrimaryCalendar
           /\ BlockDateId(month_block[i].blocks[1]).date = None
           /\ month_block[i].blocks[1].ns_ID # None
    /\ events_master_clean # <<>>

\* --------------------------------------------------------------------- C9
\* The single record of the claim: one month_block page of the primary
\* calendar with one block that has a date, a title, a time label, an
\* event_id and a venue class with the c_ prefix, and no other page.
SingleRecordInput ==
    /\ Len(month_block) = 1 /\ day_block = <<>>
    /\ month_block[1].CalendarName = PrimaryCalendar
    /\ LET ev == month_block[1].blocks[1]
       IN  /\ BlockKept(ev)
           /\ ev.time # None
           /\ BlockDateId(ev).event_id # None
           /\ FirstLocation(ev.classes) # None
           /\ StartsWith(FirstLocation(ev.classes), "c_")
           /\ Len(FirstLocation(ev.classes)) > 2

\* What the claim promises for the block ev once the stages have run.
SingleRecordResult(ev) ==
    /\ Len(events_master_clean) = 1
    /\ events_master_clean[1].location_code = DropFirst(FirstLocation(ev.classes), 2)
    /\ pc = "analysed" =>
           /\ Len(venue_bookings) = 1
           /\ venue_bookings[1].event_key =
                  BlockDateId(ev).date \o "||" \o Lower(BlockTitle(ev)) \o "||" \o Lower(clean(ev.time))
           /\ venue_bookings[1].location_code = DropFirst(FirstLocation(ev.classes), 2)

\* C9: for that single record as the whole input, the Reconciler writes a
\* canonical table of exactly one row whose location_code is the venue code
\* without its prefix, and the analytics stage derives exactly one
\* VenueBooking (date||lowercased title||lowercased time label, that code).
EndToEndSingleRecord ==
    (pc # "collect" /\ SingleRecordInput)
        => (Rebuilt /\ SingleRecordResult(month_block[1].blocks[1]))

\* ------------------------------------------------------------------- C10
Buckets == <<month_block, event_popup, day_block, other>>

BucketsHolding(it) == {b \in 1..4 : it \in Range(Buckets[b])}

\* C10: every manifest entry the loop has passed whose file exists is in
\* exactly one of the four sub-manifests, no entry is in two of them, and
\* the sub-manifests together hold one entry per such manifest entry.
PartitionDisjointTotal ==
    /\ \A i \in 1..(pos - 1) :
           manifest[i].path = "present" => Cardinality(BucketsHolding(manifest[i])) = 1
    /\ \A it \in Range(manifest) : Cardinality(BucketsHolding(it)) <= 1
    /\ Len(month_block) + Len(event_popup) + Len(day_block) + Len(other)
           = Cardinality({i \in 1..(pos - 1) : manifest[i].path = "present"})

\* The loop has ended with two readable entries in two different buckets,
\* one of them `other`.
PartitionWitness ==
    /\ pc = "partitioned"
    /\ Len(manifest) = 2
    /\ manifest[1].path = "present" /\ manifest[2].path = "present"
    /\ BucketsHolding(manifest[1]) # BucketsHolding(manifest[2])
    /\ other # <<>>

\* ------------------------------------------------------------------- C11
\* The manifest entries the partition loop has passed.
Passed == {manifest[k] : k \in 1..(pos - 1)}

\* C11: an entry whose local file is missing, or exists but is empty, is in
\* none of the four sub-manifests.
SkippedNotRouted ==
    \A it \in Passed :
        (it.path # "present" \/ Strip(it.html) = "") => BucketsHolding(it) = {}

\* ------------------------------------------------------------------- C12
\* Entries the loop has passed whose text is classified MonthBlock and whose
\* Op is neither ShowIt nor ShowMonth.
MonthBlockWithoutMonthOp ==
    {it \in Passed : /\ it.path = "present"
                     /\ classify_html(it.html) = "month_block"
                     /\ it.Op \notin {"ShowIt", "ShowMonth"}}

\* C12 as claimed: every such entry is in `other` and in no parsed bucket.
MonthBlockWithoutMonthOpToOther ==
    \A it \in MonthBlockWithoutMonthOp : BucketsHolding(it) = {4}

\* C12, amended: every such entry is in `other` alone, except that an entry
\* with Op=ShowDay whose text holds an event-block marker is in day_block
\* alone; none is in month_block or event_popup.
MonthBlockWithoutMonthOpRouting ==
    \A it \in MonthBlockWithoutMonthOp :
        BucketsHolding(it) = IF it.Op = "ShowDay" /\ HasCalEvent(it.html) THEN {3} ELSE {4}

\* The loop has ended on two MonthBlock pages fetched with Op=ShowDay, one
\* with an event-block marker (now in day_block), one without (now in other).
MonthBlockWithoutMonthOpWitness ==
    /\ pc = "partitioned"
    /\ Len(manifest) = 2
    /\ Range(manifest) \subseteq MonthBlockWithoutMonthOp
    /\ manifest[1].Op = "ShowDay" /\ manifest[2].Op = "ShowDay"
    /\ day_block = <<manifest[1]>>
    /\ other = <<manifest[2]>>

\* ------------------------------------------------------------------- C13
\* C13: a document that starts with an <?xml declaration and has no <html
\* tag in its first portion is routed into no sub-manifest.
XmlNotRouted ==
    \A it \in Passed :
        (it.path = "present" /\ is_xml_doc(it.html)) => BucketsHolding(it) = {}

\* ------------------------------------------------------------------- C14
\* One of the markers occurs in the text, letter case ignored.
HasMarker(html, markers) == \E m \in markers : Contains(Lower(html), Lower(m))

CalBlockMarkers == {"class=\"calblock\"", "class='calblock'"}

BlockViewMarkers == {"class=\"blockview\"", "class='blockview'"}

FeedMarkers == {"<rss", "<feed", "op=rss"}

PlatformMarkers == {"calcium web calendar", "brownbearsw.com"}

\* The label of the first rule that matches, in the order of the claim.
PriorityLabel(html, popup_markers) ==
    IF HasMarker(html, popup_markers) THEN "event_popup"
    ELSE IF HasMarker(html, CalBlockMarkers) /\ HasMarker(html, BlockViewMarkers) THEN "month_block"
    ELSE IF HasMarker(html, CalBlockMarkers) THEN "calendar_grid_other"
    ELSE IF HasMarker(html, FeedMarkers) THEN "feed"
    ELSE IF HasMarker(html, PlatformMarkers) THEN "calcium_other"
    ELSE "other"

\* Per file text: the label by the rules with the Partitioner's popup
\* markers, and with the audit's.
ExpectedLabels ==
    [h \in Htmls |->
        [partitioner |-> PriorityLabel(h, {"class=\"eventpopup\"", "id=\"eventsummary\""}),
         audit |-> PriorityLabel(h, {"class=\"eventpopup\"", "eventpopup .summary",
                                     "id=\"eventsummary\""}),
         counted |-> Strip(h) # "" /\ ~is_xml_doc(h)]]

\* C14: the label given to a document is one of the six and is that of the
\* first matching rule in the order popup, calendar block (MonthBlock with
\* the block-view marker, else CalendarGridOther), feed, platform, Other,
\* matching without regard to letter case; in the Partitioner and in the
\* audit.
ClassifierPriority ==
    /\ html_type \in Labels \cup {None}
    /\ audit_type \in Labels \cup {None}
    /\ (pos > 1 /\ manifest[pos - 1].path = "present")
           => html_type = ExpectedLabels[manifest[pos - 1].html].partitioner
    /\ (audit_pos > 1 /\ ExpectedLabels[iter_existing_files(manifest)[audit_pos - 1].html].counted)
           => audit_type = ExpectedLabels[iter_existing_files(manifest)[audit_pos - 1].html].audit

\* A document with the popup marker in upper case and the calendar-block
\* marker has been classified by both scripts, as an event popup.
ClassifierPriorityWitness ==
    /\ pc = "audited"
    /\ Len(manifest) = 1
    /\ manifest[1].path = "present"
    /\ Contains(manifest[1].html, "ID=\"EventSummary\"")
    /\ HasMarker(manifest[1].html, CalBlockMarkers)
    /\ html_type = "event_popup"
    /\ audit_type = "event_popup"

\* ------------------------------------------------------------------- C15
\* C15: whatever the listed files hold, also when no event record is parsed
\* from the month_block or the day_block pages, the Reconciler runs to its
\* end and writes a canonical table; it never stops on an error.
ReconcilerNeverAborts == pc \notin {"crashed", "fatal"}

\* ------------------------------------------------------------------- C17
\* The records of the primary calendar among q.
OnlyPrimary(q) == SelectSeq(q, LAMBDA r : r.calendar_name = "BilalEvents")

\* C17: every row of the canonical table belongs to the primary calendar,
\* and the table is the one reconciliation gives when the records of every
\* other calendar are taken out of its input beforehand: they change
\* neither the month-coverage set nor the outcome of deduplication.
CalendarFilterHolds ==
    Rebuilt =>
        /\ \A r \in Range(events_master_clean) : r.calendar_name = "BilalEvents"
        /\ MonthsOf(SelectSeq(events_master_clean, LAMBDA r : r.source_type = "month_block"))
               = MonthsOf(OnlyPrimary(raw_month))
        /\ events_master_clean
               = DedupePasses(OnlyPrimary(raw_month)
                     \o SelectSeq(OnlyPrimary(raw_day),
                                  LAMBDA r : r.year_month \notin MonthsOf(OnlyPrimary(raw_month))))

\* A month-view record of another calendar lies in a month for which the
\* primary calendar has day-view records only, and such a day-view record
\* is in the canonical table.
CalendarFilterWitness ==
    /\ Rebuilt
    /\ \E m \in Range(raw_month), d \in Range(raw_day) :
           /\ m.calendar_name # "BilalEvents"
           /\ d.calendar_name = "BilalEvents"
           /\ d.year_month = m.year_month
           /\ d \in Range(events_master_clean)

\* ------------------------------------------------------------------- C16
\* C16: when the analytics stage halts on a missing canonical file, or on a
\* file without the date column, nothing exists in the output location: no
\* output directory and no output file.
FatalLeavesNoOutput == pc = "fatal" => (~out_dir /\ yearly = <<>>)

\* ------------------------------------------------------------------- C19
\* Number of unique events of calendar year y.
EventsInYear(y) == Cardinality({k \in 1..Len(events_unique) : year_int(events_unique[k]) = y})

\* C19: in the yearly summary the growth percentage of a year is non-null
\* exactly when the calendar year immediately before it has a positive
\* event count; it is null for the first year and for a year that follows
\* a year without events.
GrowthNullness ==
    pc = "analysed" =>
        \A n \in 1..Len(yearly) :
            (yearly[n].growth_pct # Null) <=> (EventsInYear(yearly[n].year_int - 1) > 0)

\* ------------------------------------------------------------------- C20
\* The words of a text.
Words(txt) == Range(Split(txt, " "))

\* C20: the canonical title is lower case, holds no whole word "host",
\* only word characters separated by single spaces, and no entry of the typo
\* table; the title "Arabic Scool at Bilal Host John Doe" (the only event
\* of 2019-03-09) comes out as "arabic school at bilal".
CanonicalTitleResult ==
    pc = "analysed" =>
        \A a \in Range(events_unique) :
            /\ a.title_canonical = Lower(a.title_canonical)
            /\ "host" \notin Words(a.title_canonical)
            /\ \A w \in Words(a.title_canonical) :
                   w # "" /\ \A k \in 1..Len(w) : IsWord(Ch(w, k))
            /\ a.title_canonical \notin {"arabic scool at bilal", "arabic scool"}
            /\ a.date = "2019-03-09" => a.title_canonical = "arabic school at bilal"

\* The canonical table holds a row titled "Arabic Scool at Bilal Host John
\* Doe" and the analytics has derived its unique event.
CanonicalTitleWitness ==
    /\ pc = "analysed"
    /\ \E r \in Range(events_master_clean) :
           r.title = "Arabic Scool at Bilal Host John Doe" /\ r.date = "2019-03-09"
    /\ \E a \in Range(events_unique) :
           a.date = "2019-03-09" /\ a.title_canonical = "arabic school at bilal"

\* ------------------------------------------------------------------- C18
\* The row has no value in the column.
Absent(row, column) == column \notin DOMAIN row \/ row[column] = None

\* C18: after the left join of the popup records onto the events, every
\* event without an event_id, and every event whose event_id is that of no
\* popup record, has absent popup summary and popup date header, whatever
\* the popup records are.
PopupEnrichmentById ==
    pc = "extracted" =>
        \A row \in Range(all_events) :
            (row.event_id = None \/ \A p \in Range(df_pop) : p.event_id # row.event_id)
                => Absent(row, "popup_summary") /\ Absent(row, "popup_date_header")

\* ------------------------------------------------------------------- C21
\* Record c ranks strictly before record k: by source (month_block first),
\* then event_id present, then location_code present.
RanksBefore(c, k) ==
    LET src(r) == IF r.source_type = "month_block" THEN 0 ELSE 1
        id(r) == IF r.event_id # None THEN 0 ELSE 1
        loc(r) == IF r.location_code # None THEN 0 ELSE 1
    IN  \/ src(c) < src(k)
        \/ src(c) = src(k) /\ id(c) < id(k)
        \/ src(c) = src(k) /\ id(c) = id(k) /\ loc(c) < loc(k)

\* C21: among the candidate records sharing a (date, event_id), the one in
\* the canonical table is a best one under the rank: no candidate with its
\* key ranks strictly before it, whatever the titles are.
HighestRankedWins ==
    Rebuilt =>
        \A k \in Range(events_master_clean) :
            k.event_id # None =>
                \A c \in Range(Combined) :
                    (c.date = k.date /\ c.event_id = k.event_id) => ~RanksBefore(c, k)

\* ------------------------------------------------------------------- C22
\* Canonical title the analytics stage gives a row of the canonical table.
TitleCanonicalOf(r) == AnalyticsRows[r].title_canonical

\* C22: two titles are equal under the Reconciler's normalization
\* (title_norm) if and only if they are equal under the analytics
\* canonicalization (title_canonical).
OneTitleComparison ==
    Rebuilt =>
        \A r1, r2 \in Range(events_master_clean) :
            (r1.title_norm = r2.title_norm) <=> (TitleCanonicalOf(r1) = TitleCanonicalOf(r2))

\* ------------------------------------------------------------------- C23
\* Venue codes carried by the parsed records of both manifests.
ParsedVenueCodes ==
    {r.location_code : r \in {x \in Range(raw_month) \cup Range(raw_day) : x.location_code # None}}

\* C23: every venue booking names a venue code that some parsed record
\* carried; an event without location_code yields no booking.
NoBookingWithoutVenue ==
    pc = "analysed" =>
        \A b \in Range(venue_bookings) : b.location_code \in ParsedVenueCodes

\* ------------------------------------------------------------------- C28
\* Event keys of the analytics stage's unique-event set.
UniqueEventKeys == {a.event_key : a \in Range(events_unique)}

\* C28: every row of the canonical table with a valid date and a non-empty
\* title is represented in events_unique by its event key.
AnalyticsLosesNoTitledEvent ==
    pc = "analysed" =>
        \A r \in Range(events_master_clean) :
            (YearOk(r.date) /\ r.title # None /\ Strip(r.title) # "")
                => EventKeyOf(r) \in UniqueEventKeys

\* ------------------------------------------------------------------- C27
\* The event table before the popup enrichment.
PreEnrichment ==
    all_events_of(process_manifest(month_block, "month_block"),
                  process_manifest(day_block, "day_block"))

\* C27: the popup enrichment keeps the row count of the event table, each
\* event row appearing once (stated for popup records that all carry an
\* event_id, several of them possibly the same one).
EnrichmentPreservesRows ==
    (pc = "extracted" /\ \A p \in Range(df_pop) : p.event_id # None)
        => Len(all_events) = Len(PreEnrichment)

\* ------------------------------------------------------------------- C30
\* C30: for a manifest of one existing document that the audit classifies,
\* the label the audit counted, the label the Partitioner computed and the
\* label of the verification script are the same.
OneClassifier ==
    (pc = "audited" /\ Len(manifest) = 1 /\ ~Skipped(manifest[1])
        /\ AuditOutcome(manifest[1].html) \in Labels)
        => /\ audit_type = html_type
           /\ verify_classify_html(manifest[1].html) = html_type

\* ------------------------------------------------------------------- C24
IsDigit(c) == InStr(c, DigitChars)

\* s has the form YYYY-MM-DD.
IsIsoDate(s) ==
    /\ Len(s) = 10
    /\ \A i \in {1, 2, 3, 4, 6, 7, 9, 10} : IsDigit(Ch(s, i))
    /\ Ch(s, 5) = "-" /\ Ch(s, 8) = "-"

\* C24: the date of every parsed record has the form YYYY-MM-DD, whatever
\* the Date parameter was, and year and year_month are its year and month.
DateFormat ==
    pc = "parsed" =>
        \A r \in Range(raw_month) :
            /\ IsIsoDate(r.date)
            /\ r.year = SubSeq(r.date, 1, 4)
            /\ r.year_month = SubSeq(r.date, 1, 7)

\* ------------------------------------------------------------------- C25
\* The date the noscript link of a block yields (None: no link, no Date
\* parameter, or a Date that does not parse).
LinkDate(ev) ==
    IF ev.has_ns /\ ev.ns_Date # None THEN parse_date_str(ev.ns_Date) ELSE None

\* Date and id as the claim describes them: both from the link when it
\* yields a date, else both from the popup call when it matches.
PreferredDateId(ev) ==
    IF LinkDate(ev) # None THEN <<LinkDate(ev), ev.ns_ID>>
    ELSE IF ev.has_popup THEN <<parse_date_str(ev.popup_date), ev.popup_id>>
    ELSE <<None, None>>

\* The (date, event_id) pairs of the retained records of a list of pages.
RECURSIVE PreferredPairs(_)
PreferredPairs(pages) ==
    IF pages = <<>> THEN <<>>
    ELSE LET ev == Head(pages).blocks[1]
         IN  (IF PreferredDateId(ev)[1] # None /\ BlockTitle(ev) # ""
              THEN <<PreferredDateId(ev)>> ELSE <<>>)
             \o PreferredPairs(Tail(pages))

\* C25: date and event_id of every retained record come from the same
\* source: the noscript link when it yields a date, else the popup call.
DateIdSameSource ==
    pc = "parsed" =>
        [i \in 1..Len(raw_month) |-> <<raw_month[i].date, raw_month[i].event_id>>]
            = PreferredPairs(month_block)

\* A page whose link has a good Date beside a popup call, followed by a
\* page whose link has an id but no usable Date beside a popup call; both
\* gave a record.
DateIdSameSourceWitness ==
    /\ pc = "parsed"
    /\ Len(month_block) = 2
    /\ month_block[1].blocks[1] = BlockBoth
    /\ month_block[2].blocks[1] = [BlockBoth EXCEPT !.ns_Date = "2021/5"]
    /\ Len(raw_month) = 2
    /\ raw_month[1].event_id = "899" /\ raw_month[1].date = "2021-05-21"
    /\ raw_month[2].event_id = "900" /\ raw_month[2].date = "2020-01-02"

\* ------------------------------------------------------------------- C26
\* The entry of the i-th capture records a failed fetch.
Failed(i) == dl_manifest[i].path = ""

\* C26: a fetch makes at most Retries attempts and fails only after
\* Retries failed attempts; a failed snapshot is an entry with an empty path
\* and an error; the manifest has one entry per processed capture, in
\* listing order, and one per listed capture when the run ends.
RetryAndIsolation ==
    /\ attempt <= Retries
    /\ Len(dl_manifest) = cap_pos - 1
    /\ Len(attempts_log) = Len(dl_manifest)
    /\ \A i \in 1..Len(dl_manifest) :
          /\ dl_manifest[i].timestamp = caps[i].timestamp
          /\ dl_manifest[i].original = caps[i].original
          /\ attempts_log[i] <= Retries
          /\ Failed(i) <=> dl_manifest[i].error # None
          /\ Failed(i) => attempts_log[i] = Retries
          /\ ~Failed(i) => dl_manifest[i].path = Paths[caps[i]]
    /\ pc = "downloaded" => Len(dl_manifest) = Len(caps)

\* The run is over: the first snapshot failed after Retries attempts, the
\* second was fetched at the second attempt.
RetryAndIsolationWitness ==
    /\ pc = "downloaded"
    /\ Len(caps) = 2
    /\ Failed(1) /\ dl_manifest[1].error = "HTTP 503" /\ attempts_log[1] = Retries
    /\ ~Failed(2) /\ attempts_log[2] = 2

\* ------------------------------------------------------------------- C29
\* The capture an entry was made for.
CaptureOf(e) == [timestamp |-> e.timestamp, original |-> e.original]

\* C29: the path an entry records holds the content of the entry's own
\* capture.
DistinctCapturesDistinctFiles ==
    \A i \in 1..Len(dl_manifest) :
        ~Failed(i) =>
            \A f \in files : f.path = dl_manifest[i].path => f.content = CaptureOf(dl_manifest[i])

====
